---- MODULE Spec2Model ----
(***************************************************************************)
(* A model of dg's PointerSubgraphValidator                                *)
(* (src/analysis/PointsTo/PointerSubgraphValidator.cpp).                   *)
(*                                                                         *)
(* The state is a pointer subgraph (root, node list, and per node its      *)
(* type, operands, predecessors and successors) together with the          *)
(* validator object (its accumulated `errors`, and the position of a       *)
(* running validate() call).  validate() is followed through its code:     *)
(* checkOperands(), the first loop of checkEdges(), the level-by-level     *)
(* loop of reachableNodes(), and the second loop of checkEdges().          *)
(*                                                                         *)
(* `errors` is a std::string in the code; here it is the sequence of the   *)
(* entries the report functions append, each entry holding what the text   *)
(* holds: the heading, the dump of the node and the explanation.           *)
(***************************************************************************)
EXTENDS Integers, Sequences, FiniteSets, TLC

\* Number of PSNode objects that exist besides the three sentinels.
NumObjs == 3
\* Longest operand list given to the node whose operands are enumerated.
MaxOps == 2
\* Number of times validate() is called on the same validator object.
MaxRuns == 2

\* The null pointer, which the node list may hold (`if (!nd) continue;`).
NIL == 0

Obj == 1..NumObjs

\* The three sentinel nodes are objects of their own, distinct from every
\* node the graph owns.
NULLPTR == NumObjs + 1
UNKNOWN_MEMORY == NumObjs + 2
INVALIDATED == NumObjs + 3
Sentinels == {NULLPTR, UNKNOWN_MEMORY, INVALIDATED}
Refs == Obj \cup Sentinels

\* The node kinds the validator's switch knows.
PSNodeType ==
    {"PHI", "NULL_ADDR", "UNKNOWN_MEM", "NOOP", "FUNCTION", "GEP", "LOAD", "CAST",
     "INVALIDATE_OBJECT", "CONSTANT", "FREE", "STORE", "MEMCPY"}

VARIABLES
    root,          \* PS->getRoot()
    nodes,         \* PS->getNodes(): a sequence of node pointers, NIL allowed
    freed,         \* objects that were deleted; a pointer to one dangles
    type,          \* nd->getType()
    operands,      \* nd->getOperands()
    predecessors,  \* nd->getPredecessors()
    successors,    \* nd->getSuccessors()
    garbage,       \* what a read through a dangling pointer yields
    errors,        \* PointerSubgraphValidator::errors
    pc,            \* position of the validate() call
    invalid,       \* the local `invalid` of validate() and of checkEdges()
    call,          \* length of `errors` at the call and after checkOperands()
    reachable,     \* reachableNodes: the set `reachable`
    to_process,    \* reachableNodes: the vector `to_process`
    returned       \* one record per finished validate() call

graph == <<root, nodes, freed, type, operands, predecessors, successors>>
vars == <<root, nodes, freed, type, operands, predecessors, successors, garbage,
          errors, pc, invalid, call, reachable, to_process, returned>>

(***************************************************************************)
(* Helpers on sequences and sets                                           *)
(***************************************************************************)
Range(s) == {s[i] : i \in 1..Len(s)}

SeqsUpTo(S, n) == UNION {[1..k -> S] : k \in 0..n}

Min(S) == CHOOSE x \in S : \A y \in S : x <= y

\* The elements of a set of objects in the order an iteration visits them.
RECURSIVE InOrder(_)
InOrder(S) == IF S = {} THEN <<>> ELSE <<Min(S)>> \o InOrder(S \ {Min(S)})

(***************************************************************************)
(* PSNode accessors.  A read through a dangling pointer is undefined       *)
(* behaviour: it yields whatever the freed block holds now.                *)
(***************************************************************************)
getType(nd) == IF nd \in freed THEN garbage.type ELSE type[nd]

getID(nd) == IF nd \in freed THEN garbage.id ELSE nd

getOperandsNum(nd) == Len(operands[nd])

predecessorsNum(nd) == Cardinality(predecessors[nd])

(***************************************************************************)
(* The report functions                                                    *)
(***************************************************************************)
dumpNode(nd) ==
    [type |-> getType(nd),
     id |-> getID(nd),
     operands |-> [i \in 1..getOperandsNum(nd) |->
                     [id |-> getID(operands[nd][i]),
                      type |-> getType(operands[nd][i])]]]

\* `st` is [errors, invalid]: the text so far and the caller's `invalid`,
\* which every call site updates by `invalid |= report...(...)`.
reportInvalOperands(st, nd, user_err) ==
    [errors |-> Append(st.errors,
                  [rule |-> "Invalid operands", node |-> dumpNode(nd),
                   user_err |-> user_err]),
     invalid |-> st.invalid \/ TRUE]

reportInvalEdges(st, nd, user_err) ==
    [errors |-> Append(st.errors,
                  [rule |-> "Invalid number of edges", node |-> dumpNode(nd),
                   user_err |-> user_err]),
     invalid |-> st.invalid \/ TRUE]

reportInvalNode(st, nd, user_err) ==
    [errors |-> Append(st.errors,
                  [rule |-> "Invalid node", node |-> dumpNode(nd),
                   user_err |-> user_err]),
     invalid |-> st.invalid \/ TRUE]

reportUnreachableNode(st, nd) ==
    [errors |-> Append(st.errors,
                  [rule |-> "Unreachable node", node |-> dumpNode(nd),
                   user_err |-> ""]),
     invalid |-> st.invalid \/ TRUE]

(***************************************************************************)
(* checkOperands                                                           *)
(***************************************************************************)
RECURSIVE hasDuplicateFrom(_, _, _)
hasDuplicateFrom(ops, i, seen) ==
    IF i > Len(ops) THEN FALSE
    ELSE IF ops[i] \in seen THEN TRUE
    ELSE hasDuplicateFrom(ops, i + 1, seen \cup {ops[i]})

\* A variant of hasDuplicateOperand that starts at the second operand.
hasDuplicateOperand_SkipFirst(nd) == hasDuplicateFrom(operands[nd], 2, {})

hasDuplicateOperand(nd) == hasDuplicateFrom(operands[nd], 1, {})

\* First loop: fill known_nodes, report a node met a second time.
RECURSIVE knownNodesLoop(_, _, _)
knownNodesLoop(st, known, i) ==
    IF i > Len(nodes) THEN [st |-> st, known_nodes |-> known]
    ELSE IF nodes[i] = NIL THEN knownNodesLoop(st, known, i + 1)
    ELSE IF nodes[i] \in known
         THEN knownNodesLoop(
                  reportInvalNode(st, nodes[i], "Node multiple times in the graph"),
                  known, i + 1)
         ELSE knownNodesLoop(st, known \cup {nodes[i]}, i + 1)

\* A variant of isUnknownOperand that does not know the INVALIDATED sentinel.
isUnknownOperand_NoInvalidated(op, known) ==
    /\ op # NULLPTR
    /\ op # UNKNOWN_MEMORY
    /\ op \notin known

isUnknownOperand(op, known) ==
    /\ op # NULLPTR
    /\ op # UNKNOWN_MEMORY
    /\ op # INVALIDATED
    /\ op \notin known

\* The inner loop over one node's operands.
RECURSIVE operandsLoop(_, _, _, _)
operandsLoop(st, nd, known, j) ==
    IF j > Len(operands[nd]) THEN st
    ELSE IF isUnknownOperand(operands[nd][j], known)
         THEN operandsLoop(
                  reportInvalOperands(st, nd, "Node has unknown (maybe dangling) operand"),
                  nd, known, j + 1)
         ELSE operandsLoop(st, nd, known, j + 1)

\* A variant of checkArity that reports a STORE or MEMCPY only for fewer
\* than two operands.
checkArity_FewerOnly(st, nd) ==
    CASE getType(nd) = "PHI" ->
            IF getOperandsNum(nd) = 0
            THEN reportInvalOperands(st, nd, "Empty PHI")
            ELSE IF hasDuplicateOperand(nd)
                 THEN reportInvalOperands(st, nd, "PHI Node contains duplicated operand")
                 ELSE st
      [] getType(nd) \in {"NULL_ADDR", "UNKNOWN_MEM", "NOOP", "FUNCTION"} ->
            IF getOperandsNum(nd) # 0
            THEN reportInvalOperands(st, nd, "Should not have an operand")
            ELSE st
      [] getType(nd) \in {"GEP", "LOAD", "CAST", "INVALIDATE_OBJECT", "CONSTANT", "FREE"} ->
            IF getOperandsNum(nd) # 1
            THEN reportInvalOperands(st, nd, "Should have exactly one operand")
            ELSE st
      [] getType(nd) \in {"STORE", "MEMCPY"} ->
            IF getOperandsNum(nd) < 2
            THEN reportInvalOperands(st, nd, "Should have exactly two operands")
            ELSE st
      [] OTHER -> st

\* The switch on the node's type.
checkArity(st, nd) ==
    CASE getType(nd) = "PHI" ->
            IF getOperandsNum(nd) = 0
            THEN reportInvalOperands(st, nd, "Empty PHI")
            ELSE IF hasDuplicateOperand(nd)
                 THEN reportInvalOperands(st, nd, "PHI Node contains duplicated operand")
                 ELSE st
      [] getType(nd) \in {"NULL_ADDR", "UNKNOWN_MEM", "NOOP", "FUNCTION"} ->
            IF getOperandsNum(nd) # 0
            THEN reportInvalOperands(st, nd, "Should not have an operand")
            ELSE st
      [] getType(nd) \in {"GEP", "LOAD", "CAST", "INVALIDATE_OBJECT", "CONSTANT", "FREE"} ->
            IF getOperandsNum(nd) # 1
            THEN reportInvalOperands(st, nd, "Should have exactly one operand")
            ELSE st
      [] getType(nd) \in {"STORE", "MEMCPY"} ->
            IF getOperandsNum(nd) # 2
            THEN reportInvalOperands(st, nd, "Should have exactly two operands")
            ELSE st
      [] OTHER -> st

\* Second loop: every node's operands, then its arity.
RECURSIVE operandsNodesLoop(_, _, _)
operandsNodesLoop(st, known, i) ==
    IF i > Len(nodes) THEN st
    ELSE IF nodes[i] = NIL THEN operandsNodesLoop(st, known, i + 1)
    ELSE operandsNodesLoop(
             checkArity(operandsLoop(st, nodes[i], known, 1), nodes[i]),
             known, i + 1)

\* A variant of checkOperands that starts from an empty text, as if
\* validate() cleared `errors` first.
checkOperands_Cleared(errs) ==
    LET first == knownNodesLoop([errors |-> <<>>, invalid |-> FALSE], {}, 1)
    IN  operandsNodesLoop(first.st, first.known_nodes, 1)

\* checkOperands() run on a validator whose text is `errs`: the text after
\* it and the value it returns.
checkOperands(errs) ==
    LET first == knownNodesLoop([errors |-> errs, invalid |-> FALSE], {}, 1)
    IN  operandsNodesLoop(first.st, first.known_nodes, 1)

(***************************************************************************)
(* checkEdges and reachableNodes                                           *)
(***************************************************************************)
\* A variant of isInPredecessors that looks in the predecessors of `nd`.
isInPredecessors_Swapped(nd, of) == \E pred \in predecessors[nd] : pred = of

isInPredecessors(nd, of) == \E pred \in predecessors[of] : pred = nd

\* A variant of canBeOutsideGraph that leaves out FUNCTION.
canBeOutsideGraph_NoFunction(nd) ==
    \/ getType(nd) = "CONSTANT"
    \/ getType(nd) = "UNKNOWN_MEM"
    \/ getType(nd) = "NULL_ADDR"

canBeOutsideGraph(nd) ==
    \/ getType(nd) = "FUNCTION"
    \/ getType(nd) = "CONSTANT"
    \/ getType(nd) = "UNKNOWN_MEM"
    \/ getType(nd) = "NULL_ADDR"

\* A variant of lacksPredecessors that does not except the root.
lacksPredecessors_RootToo(nd) ==
    /\ predecessorsNum(nd) = 0
    /\ ~canBeOutsideGraph(nd)

\* The condition of the first check in the loop over the nodes.
lacksPredecessors(nd) ==
    /\ predecessorsNum(nd) = 0
    /\ nd # root
    /\ ~canBeOutsideGraph(nd)

\* The inner loop over one node's successors.
RECURSIVE successorsLoop(_, _, _, _)
successorsLoop(st, nd, succs, j) ==
    IF j > Len(succs) THEN st
    ELSE IF ~isInPredecessors(nd, succs[j])
         THEN successorsLoop(
                  reportInvalEdges(st, nd,
                      "Node not set as a predecessor of some of its successors"),
                  nd, succs, j + 1)
         ELSE successorsLoop(st, nd, succs, j + 1)

checkNodeEdges(st, nd) ==
    successorsLoop(
        IF lacksPredecessors(nd)
        THEN reportInvalEdges(st, nd, "Non-root node has no predecessors")
        ELSE st,
        nd, InOrder(successors[nd]), 1)

\* First loop of checkEdges.
RECURSIVE edgesNodesLoop(_, _)
edgesNodesLoop(st, i) ==
    IF i > Len(nodes) THEN st
    ELSE IF nodes[i] = NIL THEN edgesNodesLoop(st, i + 1)
    ELSE edgesNodesLoop(checkNodeEdges(st, nodes[i]), i + 1)

\* A variant of expandLoop that puts a successor on the worklist whether
\* or not it was in `reachable` already.
RECURSIVE expandLoop_Always(_, _, _)
expandLoop_Always(acc, succs, j) ==
    IF j > Len(succs) THEN acc
    ELSE expandLoop_Always(
             [reachable |-> acc.reachable \cup {succs[j]},
              new_to_process |-> Append(acc.new_to_process, succs[j])],
             succs, j + 1)

\* reachableNodes: the loop over the successors of `cur`.  `acc` is
\* [reachable, new_to_process].
RECURSIVE expandLoop(_, _, _)
expandLoop(acc, succs, j) ==
    IF j > Len(succs) THEN acc
    ELSE IF succs[j] \notin acc.reachable
         THEN expandLoop(
                  [reachable |-> acc.reachable \cup {succs[j]},
                   new_to_process |-> Append(acc.new_to_process, succs[j])],
                  succs, j + 1)
         ELSE expandLoop(acc, succs, j + 1)

\* reachableNodes: the loop over to_process, one level of the search.
RECURSIVE levelLoop(_, _, _)
levelLoop(acc, todo, i) ==
    IF i > Len(todo) THEN acc
    ELSE levelLoop(expandLoop(acc, InOrder(successors[todo[i]]), 1), todo, i + 1)

\* One pass of the body of `while (!to_process.empty())`.
reachableLevel(reach, todo) ==
    levelLoop([reachable |-> reach, new_to_process |-> <<>>], todo, 1)

isUnreachable(nd, reach) == nd \notin reach /\ ~canBeOutsideGraph(nd)

\* Second loop of checkEdges.
RECURSIVE unreachableLoop(_, _, _)
unreachableLoop(st, reach, i) ==
    IF i > Len(nodes) THEN st
    ELSE IF nodes[i] = NIL THEN unreachableLoop(st, reach, i + 1)
    ELSE IF isUnreachable(nodes[i], reach)
         THEN unreachableLoop(reportUnreachableNode(st, nodes[i]), reach, i + 1)
         ELSE unreachableLoop(st, reach, i + 1)

\* A variant of validateResult that assigns the second result instead of
\* or-ing it in.
validateResult_Overwritten(operands_invalid, edges_invalid) == edges_invalid

\* validate(): `invalid |= checkOperands(); invalid |= checkEdges();`
validateResult(operands_invalid, edges_invalid) ==
    (FALSE \/ operands_invalid) \/ edges_invalid

(***************************************************************************)
(* The graphs validate() is run on.  The code that builds a graph is not   *)
(* part of the validator; the graphs are enumerated instead, in four       *)
(* families that between them vary every input the validator reads.        *)
(***************************************************************************)
Last == NumObjs

SentinelType ==
    [r \in Sentinels |-> CASE r = NULLPTR -> "NULL_ADDR"
                           [] r = UNKNOWN_MEMORY -> "UNKNOWN_MEM"
                           [] OTHER -> "INVALIDATED"]

\* A per-object table extended to the sentinels.
OnRefs(f, sentinel) == [r \in Refs |-> IF r \in Obj THEN f[r] ELSE sentinel[r]]

NoEdges == [r \in Sentinels |-> {}]
NoOperands == [r \in Sentinels |-> <<>>]

\* An operand list of the length the kind asks for, every operand a sentinel.
DefaultOperands(k) ==
    CASE k \in {"NULL_ADDR", "UNKNOWN_MEM", "NOOP", "FUNCTION"} -> <<>>
      [] k \in {"STORE", "MEMCPY"} -> <<NULLPTR, UNKNOWN_MEMORY>>
      [] OTHER -> <<INVALIDATED>>

\* The predecessor sets that mirror the successor sets `succ`.
Mirror(succ) == [o \in Obj |-> {p \in Obj : o \in succ[p]}]

\* The nodes 1..k in a row, each the successor of the one before.
Chain(k) == [o \in Obj |-> IF o < k THEN {o + 1} ELSE {}]

Upto(k) == [i \in 1..k |-> i]

\* What a read of a deleted node may yield: no id, the id of another node
\* or the id it had; and one of two kinds.
GarbageValues == [id : {NIL, 1, Last}, type : {"NOOP", "LOAD"}]

NoGarbage == [id |-> NIL, type |-> "NOOP"]

ValidatorInit ==
    /\ errors = <<>>
    /\ pc = "idle"
    /\ invalid = [validate |-> FALSE, checkEdges |-> FALSE]
    /\ call = [before |-> 0, mid |-> 0]
    /\ reachable = {}
    /\ to_process = <<>>
    /\ returned = <<>>

\* The chain without its first edge and with no predecessor recorded: an
\* edge kept at one end only, and no node but the root reachable.
BrokenChain == [o \in Obj |-> IF 1 < o /\ o < Last THEN {o + 1} ELSE {}]

NoPredecessors == [o \in Obj |-> {}]

\* What node 2 may hold as an operand: the root, itself, the last node or
\* a sentinel.
OperandChoices == {1, 2, Last} \cup Sentinels

\* An operand list longer than every arity.
TooLong == [i \in 1..(MaxOps + 1) |-> NULLPTR]

\* Kinds and operand lists vary.  Node 1 is the root; node 2 takes every
\* kind, every operand list up to MaxOps and the list TooLong; the last
\* node is a PHI or a
\* STORE.  The node list is complete with the chain intact, or lacks the
\* last node, or lacks it and holds a null pointer and node 2 twice with
\* the chain broken.
InitOperands ==
    /\ root = 1
    /\ freed = {}
    /\ garbage = NoGarbage
    /\ \E shape \in {[list |-> Upto(Last), succ |-> Chain(Last),
                      pred |-> Mirror(Chain(Last))],
                     [list |-> Upto(Last - 1), succ |-> Chain(Last - 1),
                      pred |-> Mirror(Chain(Last - 1))],
                     [list |-> <<NIL>> \o Upto(Last - 1) \o <<2>>, succ |-> BrokenChain,
                      pred |-> NoPredecessors]} :
          /\ nodes = shape.list
          /\ successors = OnRefs(shape.succ, NoEdges)
          /\ predecessors = OnRefs(shape.pred, NoEdges)
    /\ \E k2 \in PSNodeType,
          last \in {[kind |-> "PHI", ops |-> <<1, 1>>],
                    [kind |-> "STORE", ops |-> <<NULLPTR, 1>>]} :
          /\ type = OnRefs([o \in Obj |-> CASE o = 1 -> "NOOP"
                                            [] o = 2 -> k2
                                            [] o = Last -> last.kind
                                            [] OTHER -> "LOAD"], SentinelType)
          /\ \E o2 \in SeqsUpTo(OperandChoices, MaxOps) \cup {TooLong} :
                operands = OnRefs([o \in Obj |-> CASE o = 1 -> <<>>
                                                   [] o = 2 -> o2
                                                   [] o = Last -> last.ops
                                                   [] OTHER -> <<NULLPTR>>], NoOperands)

\* The last node was deleted and is gone from the node list, but node 2
\* may still hold it as an operand.
InitDangling ==
    /\ root = 1
    /\ freed = {Last}
    /\ garbage \in GarbageValues
    /\ nodes = Upto(Last - 1)
    /\ \E k2 \in {"LOAD", "STORE", "PHI"} :
          type = OnRefs([o \in Obj |-> CASE o = 1 -> "NOOP"
                                         [] o = 2 -> k2
                                         [] OTHER -> "LOAD"], SentinelType)
    /\ \E o2 \in SeqsUpTo({1, Last, NULLPTR}, MaxOps) :
          operands = OnRefs([o \in Obj |-> CASE o = 1 -> <<>>
                                             [] o = 2 -> o2
                                             [] OTHER -> <<NULLPTR>>], NoOperands)
    /\ successors = OnRefs(Chain(Last - 1), NoEdges)
    /\ predecessors = OnRefs(Mirror(Chain(Last - 1)), NoEdges)

\* The edges a graph of InitEdges may hold: from the root to node 2, from
\* node 2 to the last node, and from the last node to itself and back.
CandidateEdges == {<<1, 2>>, <<2, Last>>, <<Last, Last>>, <<Last, 2>>}

\* Successor and predecessor sets vary independently of each other, so an
\* edge may be recorded at one end only; node 2 takes every kind.
InitEdges ==
    /\ root = 1
    /\ freed = {}
    /\ garbage = NoGarbage
    /\ nodes = Upto(Last)
    /\ \E k1 \in {"NOOP", "FUNCTION"}, k2 \in PSNodeType, kl \in {"STORE", "CONSTANT"} :
          LET kind == [o \in Obj |-> CASE o = 1 -> k1
                                       [] o = 2 -> k2
                                       [] o = Last -> kl
                                       [] OTHER -> "STORE"]
          IN  /\ type = OnRefs(kind, SentinelType)
              /\ operands = OnRefs([o \in Obj |-> DefaultOperands(kind[o])], NoOperands)
    /\ \E S \in SUBSET CandidateEdges :
          successors = OnRefs([o \in Obj |-> {j \in Obj : <<o, j>> \in S}], NoEdges)
    /\ \E P \in SUBSET CandidateEdges :
          predecessors = OnRefs([o \in Obj |-> {i \in Obj : <<i, o>> \in P}], NoEdges)

\* The root is the last node and has any set of successors; every other
\* node has one successor or none.  Cycles and self-loops are included, and
\* the predecessors mirror the successors.
InitReach ==
    /\ root = Last
    /\ freed = {}
    /\ garbage = NoGarbage
    /\ nodes = Upto(Last)
    /\ type = OnRefs([o \in Obj |-> "NOOP"], SentinelType)
    /\ operands = OnRefs([o \in Obj |-> <<>>], NoOperands)
    /\ \E ofRoot \in SUBSET Obj, next \in [Obj \ {Last} -> Obj \cup {NIL}] :
          LET succ == [o \in Obj |-> IF o = Last THEN ofRoot
                                     ELSE {next[o]} \ {NIL}]
          IN  /\ successors = OnRefs(succ, NoEdges)
              /\ predecessors = OnRefs(Mirror(succ), NoEdges)

Init ==
    /\ ValidatorInit
    /\ \/ InitOperands
       \/ InitDangling
       \/ InitEdges
       \/ InitReach

(***************************************************************************)
(* validate(), step by step                                                *)
(***************************************************************************)
\* validate() is called and runs checkOperands().
CheckOperands ==
    /\ pc = "idle"
    /\ Len(returned) < MaxRuns
    /\ LET r == checkOperands(errors)
       IN  /\ errors' = r.errors
           /\ invalid' = [validate |-> FALSE \/ r.invalid, checkEdges |-> FALSE]
           /\ call' = [before |-> Len(errors), mid |-> Len(r.errors)]
    /\ pc' = "checkEdges"
    /\ UNCHANGED <<graph, garbage, reachable, to_process, returned>>

\* checkEdges() up to the call of reachableNodes(), and the start of
\* reachableNodes().
CheckEdges ==
    /\ pc = "checkEdges"
    /\ LET r == edgesNodesLoop([errors |-> errors, invalid |-> FALSE], 1)
       IN  /\ errors' = r.errors
           /\ invalid' = [invalid EXCEPT !.checkEdges = r.invalid]
    /\ reachable' = {root}
    /\ to_process' = <<root>>
    /\ pc' = "reachableNodes"
    /\ UNCHANGED <<graph, garbage, call, returned>>

\* One pass of the while loop of reachableNodes().
ReachableLevel ==
    /\ pc = "reachableNodes"
    /\ to_process # <<>>
    /\ LET r == reachableLevel(reachable, to_process)
       IN  /\ reachable' = r.reachable
           /\ to_process' = r.new_to_process
    /\ UNCHANGED <<graph, garbage, errors, pc, invalid, call, returned>>

\* reachableNodes() returns; the second loop of checkEdges() runs and
\* validate() returns.  What a dangling pointer reads may differ the next
\* time validate() is called.
CheckReachable ==
    /\ pc = "reachableNodes"
    /\ to_process = <<>>
    /\ LET r == unreachableLoop([errors |-> errors, invalid |-> invalid.checkEdges],
                                reachable, 1)
           value == validateResult(invalid.validate, r.invalid)
       IN  /\ errors' = r.errors
           /\ invalid' = [validate |-> value, checkEdges |-> r.invalid]
           /\ returned' = Append(returned,
                              [value |-> value,
                               checkOperands |-> invalid.validate,
                               checkEdges |-> r.invalid,
                               before |-> call.before,
                               mid |-> call.mid,
                               errors |-> r.errors])
    /\ garbage' \in (IF freed = {} THEN {garbage} ELSE GarbageValues)
    /\ reachable' = {}
    /\ to_process' = <<>>
    /\ pc' = "idle"
    /\ UNCHANGED <<graph, call>>

Next ==
    \/ CheckOperands
    \/ CheckEdges
    \/ ReachableLevel
    \/ CheckReachable

Spec == Init /\ [][Next]_vars

ReachInit ==
    /\ ValidatorInit
    /\ InitReach

\* validate() is a sequential function: once called it keeps running.  The
\* graphs are those of InitReach.
SpecReach == ReachInit /\ [][Next]_vars /\ WF_vars(Next)

(***************************************************************************)
(* What the claims speak of, stated from the data model and not from the   *)
(* validator's code.                                                       *)
(***************************************************************************)
\* The members of the node set.
NodeSet == Range(nodes) \ {NIL}

\* How often the node list holds `n`.
Occurrences(n) == Cardinality({i \in DOMAIN nodes : nodes[i] = n})

\* A call of validate() has returned and no other is running.
Done == pc = "idle" /\ returned # <<>>

LastCall == returned[Len(returned)]

\* What checkOperands() and checkEdges() appended during the last call.
OperandEntries == SubSeq(errors, call.before + 1, call.mid)
EdgeEntries == SubSeq(errors, call.mid + 1, Len(errors))

\* The places in `entries` of the entries on node `n` with explanation `msg`.
EntriesOn(entries, rule, n, msg) ==
    {i \in DOMAIN entries : /\ entries[i].rule = rule
                            /\ entries[i].node.id = n
                            /\ entries[i].user_err = msg}

MayExistOutside == {"FUNCTION", "CONSTANT", "UNKNOWN_MEM", "NULL_ADDR"}

FixedArityKinds == PSNodeType \ {"PHI"}

\* The arity table of the specification.
Arity(k) ==
    CASE k \in {"NULL_ADDR", "UNKNOWN_MEM", "NOOP", "FUNCTION"} -> 0
      [] k \in {"GEP", "LOAD", "CAST", "INVALIDATE_OBJECT", "CONSTANT", "FREE"} -> 1
      [] k \in {"STORE", "MEMCPY"} -> 2

ArityMessage(k) ==
    CASE k = 0 -> "Should not have an operand"
      [] k = 1 -> "Should have exactly one operand"
      [] k = 2 -> "Should have exactly two operands"

PhiMessages == {"Empty PHI", "PHI Node contains duplicated operand"}

ArityMessages == {ArityMessage(k) : k \in 0..2}

UnknownMessage == "Node has unknown (maybe dangling) operand"

Distinct(ops) == \A i, j \in DOMAIN ops : i # j => ops[i] # ops[j]

\* The operand positions of `n` that hold neither a sentinel nor a member
\* of the node set.
UnknownPositions(n) ==
    {j \in DOMAIN operands[n] :
        operands[n][j] \notin Sentinels /\ operands[n][j] \notin NodeSet}

\* The successors of `a` that do not hold `a` as a predecessor.
Unmirrored(a) == {b \in successors[a] : a \notin predecessors[b]}

\* The nodes a path of successor edges leads to from a node of S.
RECURSIVE Closure(_)
Closure(S) ==
    LET T == S \cup UNION {successors[x] : x \in S}
    IN  IF T = S THEN S ELSE Closure(T)

\* The five invariants of the data model, on the nodes N of the node set.
Uniqueness(N) == \A n \in N : Occurrences(n) = 1

ReferentialIntegrity(N) ==
    \A n \in N : \A j \in DOMAIN operands[n] : operands[n][j] \in Sentinels \cup N

ArityPerKind(N) ==
    \A n \in N :
        IF type[n] = "PHI"
        THEN Len(operands[n]) >= 1 /\ Distinct(operands[n])
        ELSE Len(operands[n]) = Arity(type[n])

EdgeSymmetry(N) == \A a \in N : \A b \in successors[a] : a \in predecessors[b]

Connectivity(N) ==
    \A n \in N :
        n # root /\ type[n] \notin MayExistOutside
            => predecessors[n] # {} /\ n \in Closure({root})

ValidGraph(N) ==
    /\ Uniqueness(N)
    /\ ReferentialIntegrity(N)
    /\ ArityPerKind(N)
    /\ EdgeSymmetry(N)
    /\ Connectivity(N)

(***************************************************************************)
(* The claims                                                              *)
(***************************************************************************)

\* C1: on a graph that satisfies the five invariants of the data model,
\* validate() called with empty `errors` returns false and leaves `errors`
\* empty.
C1_ValidGraphAccepted ==
    Done /\ LastCall.before = 0 /\ ValidGraph(NodeSet)
        => LastCall.value = FALSE /\ errors = <<>>

\* A valid graph root(NOOP) -> LOAD -> STORE went through validate().
C1_Witness ==
    /\ Done
    /\ ValidGraph(NodeSet)
    /\ type[root] = "NOOP"
    /\ \E ld, st \in NodeSet :
          /\ type[ld] = "LOAD" /\ Len(operands[ld]) = 1
          /\ type[st] = "STORE" /\ Len(operands[st]) = 2
          /\ ld \in successors[root] /\ st \in successors[ld]
    /\ LastCall.value = FALSE

\* The entries checkOperands() may still append on a node whose operand
\* count is right: one per unknown operand, one per repeated listing.
OnlyUnknownOrRepeated(n) ==
    \A i \in DOMAIN OperandEntries :
        OperandEntries[i].node.id = n =>
            \/ /\ OperandEntries[i].rule = "Invalid operands"
               /\ OperandEntries[i].user_err = UnknownMessage
               /\ UnknownPositions(n) # {}
            \/ /\ OperandEntries[i].rule = "Invalid node"
               /\ Occurrences(n) > 1

WrongCountReported(n) ==
    Len(operands[n]) # Arity(type[n]) =>
        /\ \E i \in EntriesOn(OperandEntries, "Invalid operands", n,
                              ArityMessage(Arity(type[n]))) :
              OperandEntries[i].node.type = type[n]
        /\ LastCall.checkOperands
        /\ LastCall.value

RightCount(n) ==
    IF type[n] = "PHI"
    THEN Len(operands[n]) >= 1 /\ Distinct(operands[n])
    ELSE Len(operands[n]) = Arity(type[n])

C3_PhiChecked ==
    Done =>
        \A n \in NodeSet :
            type[n] = "PHI" =>
                /\ Len(operands[n]) = 0 =>
                      /\ EntriesOn(OperandEntries, "Invalid operands", n, "Empty PHI") # {}
                      /\ LastCall.value
                /\ ~Distinct(operands[n]) =>
                      /\ EntriesOn(OperandEntries, "Invalid operands", n,
                                   "PHI Node contains duplicated operand") # {}
                      /\ LastCall.value
                /\ Len(operands[n]) >= 1 /\ Distinct(operands[n]) =>
                      \A m \in PhiMessages :
                          EntriesOn(OperandEntries, "Invalid operands", n, m) = {}

\* Three PHI nodes went through validate(): an empty one, one with a
\* repeated operand, one with two distinct operands.
C3_Witness ==
    /\ Done
    /\ \E n \in NodeSet :
          /\ type[n] = "PHI"
          /\ Len(operands[n]) = 2
          /\ operands[n][1] = operands[n][2]
          /\ EntriesOn(OperandEntries, "Invalid operands", n,
                       "PHI Node contains duplicated operand") # {}

\* The unknown-operand entries are as many as the unknown operands, for
\* every node: sentinels and members of the node set are never reported.
ReportedExactlyWhenUnknown ==
    Done =>
        \A n \in NodeSet :
            Cardinality(EntriesOn(OperandEntries, "Invalid operands", n, UnknownMessage))
                = Cardinality(UnknownPositions(n)) * Occurrences(n)

\* C4: checkOperands() reports an unknown operand exactly when the operand
\* is no sentinel and no member of the node set, and the entry names the
\* node that holds the operand and lists the id of the missing operand.
C4_UnknownOperandReported ==
    /\ ReportedExactlyWhenUnknown
    /\ Done =>
          \A n \in NodeSet :
              \A i \in EntriesOn(OperandEntries, "Invalid operands", n, UnknownMessage) :
                  \A j \in UnknownPositions(n) :
                      OperandEntries[i].node.operands[j].id = operands[n][j]

UnmirroredMessage == "Node not set as a predecessor of some of its successors"

NoPredecessorMessage == "Non-root node has no predecessors"

\* C5: for a node A of the node set with a successor B that does not hold A
\* among its predecessors, checkEdges() reports the edge on A and returns
\* true, whatever the kinds and whether or not A is the root; when every
\* successor edge is mirrored it reports no such entry.
C5_EdgeSymmetryChecked ==
    Done =>
        /\ \A a \in NodeSet :
              Unmirrored(a) # {} =>
                  /\ EntriesOn(EdgeEntries, "Invalid number of edges", a,
                               UnmirroredMessage) # {}
                  /\ LastCall.checkEdges
        /\ (\A a \in NodeSet : Unmirrored(a) = {}) =>
              \A i \in DOMAIN EdgeEntries : EdgeEntries[i].user_err # UnmirroredMessage

\* The root and another node, of different kinds, each had a successor
\* that did not list it back, and each was reported.
C5_Witness ==
    /\ Done
    /\ Unmirrored(root) # {}
    /\ \E a \in NodeSet \ {root} :
          /\ type[a] # type[root]
          /\ Unmirrored(a) # {}
          /\ EntriesOn(EdgeEntries, "Invalid number of edges", a, UnmirroredMessage) # {}
    /\ EntriesOn(EdgeEntries, "Invalid number of edges", root, UnmirroredMessage) # {}

\* C6: a node of the node set that no path of successor edges from the root
\* reaches and whose kind is not FUNCTION, CONSTANT, UNKNOWN_MEM or
\* NULL_ADDR is reported unreachable and checkEdges() returns true; a node
\* of one of those four kinds is never reported unreachable; a graph that
\* is valid but for a FUNCTION node without predecessors and without path
\* from the root still makes validate() return false.
C6_UnreachableChecked ==
    Done =>
        \A n \in NodeSet :
            /\ type[n] \notin MayExistOutside /\ n \notin Closure({root}) =>
                  /\ EntriesOn(EdgeEntries, "Unreachable node", n, "") # {}
                  /\ LastCall.checkEdges
            /\ type[n] \in MayExistOutside =>
                  EntriesOn(EdgeEntries, "Unreachable node", n, "") = {}
            /\ /\ type[n] = "FUNCTION"
               /\ predecessors[n] = {}
               /\ n \notin Closure({root})
               /\ operands[n] = <<>>
               /\ Unmirrored(n) = {}
               /\ Occurrences(n) = 1
               /\ ValidGraph(NodeSet \ {n})
               /\ LastCall.before = 0
               => LastCall.value = FALSE

\* A graph held an unreachable STORE that was reported, and another graph,
\* valid but for an isolated FUNCTION node, was accepted.
C6_WitnessReported ==
    /\ Done
    /\ \E n \in NodeSet :
          /\ type[n] = "STORE"
          /\ n \notin Closure({root})
          /\ EntriesOn(EdgeEntries, "Unreachable node", n, "") # {}
    /\ \E n \in NodeSet :
          /\ type[n] \in MayExistOutside
          /\ n \notin Closure({root})

C6_WitnessFunction ==
    /\ Done
    /\ \E n \in NodeSet :
          /\ type[n] = "FUNCTION"
          /\ predecessors[n] = {}
          /\ successors[n] = {}
          /\ n \notin Closure({root})
          /\ ValidGraph(NodeSet \ {n})
          /\ Cardinality(NodeSet) >= 3
    /\ LastCall.value = FALSE

\* C7: checkEdges() reports a node of the node set for having no
\* predecessor exactly when the node has none, is not the root and is not
\* of kind FUNCTION, CONSTANT, UNKNOWN_MEM or NULL_ADDR.
C7_MissingPredecessorChecked ==
    Done =>
        \A n \in NodeSet :
            EntriesOn(EdgeEntries, "Invalid number of edges", n, NoPredecessorMessage) # {}
                <=> /\ predecessors[n] = {}
                    /\ n # root
                    /\ type[n] \notin MayExistOutside

\* One graph held a node reported for having no predecessor, a root
\* without predecessors, and a CONSTANT without predecessors.
C7_Witness ==
    /\ Done
    /\ predecessors[root] = {}
    /\ \E n \in NodeSet \ {root} :
          /\ predecessors[n] = {}
          /\ EntriesOn(EdgeEntries, "Invalid number of edges", n, NoPredecessorMessage) # {}
    /\ \E n \in NodeSet \ {root} :
          /\ predecessors[n] = {}
          /\ type[n] = "CONSTANT"

\* The violations a graph holds, one element each.  A node the node list
\* holds twice is met twice by every loop.
NodePositions == {i \in DOMAIN nodes : nodes[i] # NIL}

RepeatViolations == {i \in NodePositions : \E h \in 1..(i - 1) : nodes[h] = nodes[i]}

UnknownViolations ==
    UNION {{<<i, j>> : j \in UnknownPositions(nodes[i])} : i \in NodePositions}

ArityViolations == {i \in NodePositions : ~RightCount(nodes[i])}

PredecessorViolations ==
    {i \in NodePositions : /\ predecessors[nodes[i]] = {}
                           /\ nodes[i] # root
                           /\ type[nodes[i]] \notin MayExistOutside}

SymmetryViolations ==
    UNION {{<<i, b>> : b \in Unmirrored(nodes[i])} : i \in NodePositions}

UnreachableViolations ==
    {i \in NodePositions : /\ nodes[i] \notin Closure({root})
                           /\ type[nodes[i]] \notin MayExistOutside}

CountOf(entries, rule, msgs) ==
    Cardinality({i \in DOMAIN entries :
                    entries[i].rule = rule /\ entries[i].user_err \in msgs})

\* C8: validate() runs checkOperands() and then checkEdges() to the end,
\* whatever checkOperands() found, and returns the OR of the two results;
\* every violation in the graph has an entry of its own in `errors`, and
\* the entries of checkOperands() come before those of checkEdges().
C8_EveryViolationReported ==
    Done =>
        /\ LastCall.value = (LastCall.checkOperands \/ LastCall.checkEdges)
        /\ LastCall.checkOperands = (OperandEntries # <<>>)
        /\ LastCall.checkEdges = (EdgeEntries # <<>>)
        /\ call.before <= call.mid /\ call.mid <= Len(errors)
        /\ \A i \in DOMAIN OperandEntries :
              OperandEntries[i].rule \in {"Invalid node", "Invalid operands"}
        /\ \A i \in DOMAIN EdgeEntries :
              EdgeEntries[i].rule \in {"Invalid number of edges", "Unreachable node"}
        /\ CountOf(OperandEntries, "Invalid node", {"Node multiple times in the graph"})
              = Cardinality(RepeatViolations)
        /\ CountOf(OperandEntries, "Invalid operands", {UnknownMessage})
              = Cardinality(UnknownViolations)
        /\ CountOf(OperandEntries, "Invalid operands", ArityMessages \cup PhiMessages)
              = Cardinality(ArityViolations)
        /\ CountOf(EdgeEntries, "Invalid number of edges", {NoPredecessorMessage})
              = Cardinality(PredecessorViolations)
        /\ CountOf(EdgeEntries, "Invalid number of edges", {UnmirroredMessage})
              = Cardinality(SymmetryViolations)
        /\ CountOf(EdgeEntries, "Unreachable node", {""})
              = Cardinality(UnreachableViolations)
        /\ Len(OperandEntries) = Cardinality(RepeatViolations)
              + Cardinality(UnknownViolations) + Cardinality(ArityViolations)
        /\ Len(EdgeEntries) = Cardinality(PredecessorViolations)
              + Cardinality(SymmetryViolations) + Cardinality(UnreachableViolations)

\* One call reported a violation of every one of the six sorts.
C8_Witness ==
    /\ Done
    /\ RepeatViolations # {}
    /\ UnknownViolations # {}
    /\ Cardinality(ArityViolations) >= 2
    /\ PredecessorViolations # {}
    /\ SymmetryViolations # {}
    /\ UnreachableViolations # {}
    /\ Len(OperandEntries) >= 4
    /\ Len(EdgeEntries) >= 3

\* What of an entry does not depend on what a dangling operand reads.
Key(e) ==
    [rule |-> e.rule, user_err |-> e.user_err, id |-> e.node.id,
     type |-> e.node.type, operands |-> Len(e.node.operands)]

\* The entries the k-th call appended.
EntriesOfCall(k) ==
    SubSeq(returned[k].errors, returned[k].before + 1, Len(returned[k].errors))

Keys(entries) == [i \in DOMAIN entries |-> Key(entries[i])]

RerunAppends ==
    \A k \in 2..Len(returned) :
        /\ returned[k].value = returned[k - 1].value
        /\ returned[k].errors = returned[k - 1].errors \o EntriesOfCall(k)
        /\ Keys(EntriesOfCall(k)) = Keys(EntriesOfCall(k - 1))

\* C9 (as amended): validate() changes nothing of the graph; called again
\* on the unmodified graph it returns the same boolean, and it appends to
\* `errors` the entries of the first call once more (same headings, nodes
\* and explanations, in the same order) without clearing what was there.
C9_RerunAppends == [][graph' = graph]_vars /\ []RerunAppends

\* validate() returned twice on a graph with violations.
C9_Witness ==
    /\ Len(returned) >= 2
    /\ returned[1].value
    /\ Len(returned[2].errors) = 2 * Len(returned[1].errors)
    /\ Len(returned[1].errors) >= 2

\* C9 as stated: after the second call `errors` is what it was after the
\* first, and the boolean is the same.
C9_Original ==
    \A k \in 2..Len(returned) :
        /\ returned[k].value = returned[k - 1].value
        /\ returned[k].errors = returned[k - 1].errors

\* One pass of the loop of reachableNodes() puts on the next worklist
\* only nodes that were not in `reachable` before, each once.
EachNodeOnce ==
    pc = "reachableNodes" /\ pc' = "reachableNodes" =>
        /\ Distinct(to_process')
        /\ Range(to_process') \cap reachable = {}
        /\ reachable' = reachable \cup Range(to_process')

\* When the loop of reachableNodes() has ended, `reachable` holds the root
\* and the nodes that paths of successor edges lead to from it.
ReachableExact ==
    pc = "reachableNodes" /\ to_process = <<>> => reachable = Closure({root})

\* C10: reachableNodes(root) terminates on every graph, cycles and
\* self-loops included, a node being put into `reachable` and on the
\* worklist at most once, and it returns the root and the nodes connected
\* to it by a path of successor edges, no more and no fewer.
C10_ReachableNodes ==
    /\ (pc = "reachableNodes") ~> (pc = "idle")
    /\ []ReachableExact
    /\ [][EachNodeOnce]_vars

\* reachableNodes() ended on a graph with a self-loop and a cycle through
\* the root, having reached two of the three nodes.
C10_Witness ==
    /\ pc = "reachableNodes"
    /\ to_process = <<>>
    /\ \E x \in NodeSet : x \in successors[x]
    /\ \E x \in NodeSet \ {root} : x \in successors[root] /\ root \in successors[x]
    /\ Cardinality(reachable) >= 2
    /\ NodeSet \ reachable # {}

====
